---- MODULE Spec2Model ----
(***************************************************************************)
(* Model of the SERP collectors of SergD-SERP-XMLRiver-Collector:          *)
(*   - TaskQueue, the bounded-concurrency queue of the queued collectors   *)
(*     (serp-collector-bfl-enhanced.js and its resumable variant);         *)
(*   - main of the resumable queued collector with progress.json;          *)
(*   - main of the sequential collector (serp-collector.js);               *)
(*   - getUniqueResults, the paginated fetch-and-deduplicate loop;         *)
(*   - XmlRiverApi.performSearch, the request slots and retries.           *)
(* Each part has its own specification; the variables of the other parts   *)
(* stay at their initial values.                                           *)
(***************************************************************************)
EXTENDS Integers, Sequences, FiniteSets, TLC

(***************************************************************************)
(* Bounds of the model.                                                    *)
(***************************************************************************)
\* number of tasks handed to a TaskQueue driven by an arbitrary client
MaxTasks == 4
\* largest concurrency a TaskQueue is constructed with
MaxConcurrency == 2

\* number of keywords read from the keywords file
MaxKeywords == 2
\* number of times the process is stopped and started again
MaxRestarts == 1
\* number of writes of a file in a row that fail with an I/O error
MaxIoFailures == 2
\* number of tasks of one run whose completion is recorded, when the keyword
\* file may name a keyword more than once
MaxRecordings == 3

\* CONFIG.collection of serp-collector.js, scaled down: the number of unique
\* results wanted, the page limit and the retries of one page
targetUniqueResults == 4
maxPages == 3
collectionMaxRetries == 2
\* CONFIG.connection.retries, the maxRetries of the XmlRiverApi made by main
connectionRetries == 1
\* number of calls of getUniqueResults that main makes one after the other
MaxCalls == 2
\* number of callers of performSearch that run concurrently
MaxCallers == 3
\* largest maxThreads an XmlRiverApi is constructed with
MaxThreads == 2
\* the urls the search API can answer with are 1..MaxUrls
MaxUrls == 4
\* largest number of results on one page
MaxPageLen == 4

VARIABLES
  \* ---- TaskQueue (one instance) ----
  concurrency,   \* this.concurrency
  running,       \* this.running
  queue,         \* this.queue: task ids in arrival order
  tstate,        \* per task: where the task and its promise chain stand
  tkind,         \* per task: "async" (returns a promise) or "throws" (throws when called)
  addPromise,    \* per task: state of the promise returned by add(task)
  startOrder,    \* task ids in the order in which next() called them
  \* ---- main of the resumable queued collector ----
  pcMain,        \* "stopped" (no process), "waiting" (await Promise.all), "done"
  loadedTasks,   \* the completed tasks of the progress loaded when main started
  disk,          \* content of PROGRESS_FILE, or NoFile
  progress,      \* the object progress of main; its lastResults is null or refers to allResults
  allResults,    \* the object allResults of main (its citiesData)
  completedTasks,\* the counter completedTasks of main
  cpc,           \* per task: position inside collectDataForQuery
  result,        \* per task: the object result of collectDataForQuery
  fetchCalls,    \* per task: calls of fetchFunc issued by this process
  \* ---- main of the sequential collector (serp-collector.js) ----
  sPc,           \* position of main: "stopped" (no process), an await or a file write, "done", "failed"
  seqResults,    \* allResults.citiesData of main
  cityIndex,     \* loop variable cityIndex
  keywordIndex,  \* loop variable keywordIndex
  startFromCity, \* startFromCity
  startFromKeyword, \* startFromKeyword
  yandexResults, \* yandexResults, between the two calls of getUniqueResults
  fetched,       \* the tasks for which this process has called getUniqueResults
  resumeFile,    \* content of serp_collection_progress.json, or NoFile
  cityFiles,     \* per city: content of the file city_<name>.json, or NoFile
  finalReport,   \* content of the last full_report file, or NoFile
  errorRecovery, \* content of the last error_recovery file, or NoFile
  \* ---- one call of getUniqueResults ----
  gpc,           \* "idle", "request", "backoff", "delay", "returned", "thrown"
  engine,        \* parameter engine
  page,          \* let page
  uniqueUrls,    \* const uniqueUrls (a Set)
  uniqueResults, \* const uniqueResults (an array)
  retries,       \* let retries of the present page
  backoff,       \* let backoff of the present page
  waited,        \* time slept in the retry loop of the present page, in ms
  attempts,      \* calls of api.search... that have ended for the present page
  optionsRetryCount, \* options.retryCount of the options object of the present page
  requests,      \* HTTP requests issued for the present page
  pagesFetched,  \* pages for which a search request was issued
  lastResponse,  \* how the latest search request of the call ended
  \* ---- XmlRiverApi (one instance) and the calls of performSearch ----
  maxThreads,    \* this.maxThreads
  activeRequests,\* this.activeRequests
  apc,           \* per caller: where its call of performSearch stands
  held,          \* per caller: frames of performSearch between activeRequests++ and finally
  aRetryCount,   \* per caller: options.retryCount of the options object it passed
  requestQueue,  \* this.requestQueue: the callers whose request waits, in arrival order
  qslot,         \* per caller: 1 between activeRequests++ and activeRequests-- of processNextRequest
  via,           \* per caller: "none", or how it made its request: "direct" or "queue"
  \* ---- the calls of getUniqueResults that main has made before ----
  calls,         \* calls of getUniqueResults that have returned to main
  seenEarlier,   \* the urls in the results of these calls
  \* ---- the environment of the collectors ----
  restarts,      \* how often the process was stopped so far
  failedWrites,  \* writes of the progress file that failed since the last good one
  upstream       \* what the search API answers for each task and engine

qvars == <<concurrency, running, queue, tstate, tkind, addPromise, startOrder>>
rvars == <<pcMain, loadedTasks, disk, progress, allResults, completedTasks,
           cpc, result, fetchCalls>>
evars == <<restarts, failedWrites, upstream>>
svars == <<sPc, seqResults, cityIndex, keywordIndex, startFromCity, startFromKeyword,
           yandexResults, fetched, resumeFile, cityFiles, finalReport,
           errorRecovery>>
gvars == <<gpc, engine, page, uniqueUrls, uniqueResults, retries, backoff, waited,
           attempts, optionsRetryCount, requests, pagesFetched, lastResponse>>
avars == <<maxThreads, activeRequests, apc, held, aRetryCount, requestQueue, qslot, via>>
tvars == <<calls, seenEarlier>>
vars == <<qvars, rvars, evars, svars, gvars, avars, tvars>>
\* the variables outside the TaskQueue
notQ == <<rvars, evars, svars, gvars, avars, tvars>>

TaskIds == 1..MaxTasks

(***************************************************************************)
(* TaskQueue.  A task is "new" before add(), "queued" while in this.queue, *)
(* "running" once next() has called it, "fulfilled"/"rejected" when its    *)
(* promise has settled and the .then/.catch callback has not run yet,      *)
(* "rethrown" when the .then callback itself threw (the .catch callback is *)
(* then still to run), "threw" when the call task() threw synchronously,   *)
(* and "settled" when its callbacks are over.                              *)
(***************************************************************************)

\* the state the TaskQueue operators work on
QS == [concurrency |-> concurrency, running |-> running, queue |-> queue,
       tstate |-> tstate, tkind |-> tkind, startOrder |-> startOrder, threw |-> FALSE]

\* the guard of next(): a free slot and a waiting task
nextGuardKeepsOneFree(s) == ~(s.running + 1 >= s.concurrency \/ Len(s.queue) = 0)
nextGuardOffByOne(s) == ~(s.running > s.concurrency \/ Len(s.queue) = 0)
nextGuard(s) == ~(s.running >= s.concurrency \/ Len(s.queue) = 0)

\* next(): start the head of the queue if a slot is free; threw tells whether
\* the call task() threw, in which case the exception leaves next()
next(s) ==
  IF ~nextGuard(s) THEN [s EXCEPT !.threw = FALSE]
  ELSE LET t == Head(s.queue) IN
       [s EXCEPT !.queue = Tail(s.queue),
                 !.running = s.running + 1,
                 !.startOrder = Append(s.startOrder, t),
                 !.tstate = [s.tstate EXCEPT ![t] =
                               IF s.tkind[t] = "throws" THEN "threw" ELSE "running"],
                 !.threw = (s.tkind[t] = "throws")]

\* add(task): push, then next(); an exception of next() rejects the new promise
addUnshift(s, t, k) ==
  next([s EXCEPT !.queue = <<t>> \o s.queue,
                 !.tstate = [s.tstate EXCEPT ![t] = "queued"],
                 !.tkind = [s.tkind EXCEPT ![t] = k]])
add(s, t, k) ==
  next([s EXCEPT !.queue = Append(s.queue, t),
                 !.tstate = [s.tstate EXCEPT ![t] = "queued"],
                 !.tkind = [s.tkind EXCEPT ![t] = k]])

\* write a queue state back to the variables
SetQ(s) ==
  /\ running' = s.running
  /\ queue' = s.queue
  /\ tstate' = s.tstate
  /\ tkind' = s.tkind
  /\ startOrder' = s.startOrder
  /\ UNCHANGED concurrency

InitQueue(ids) ==
  /\ concurrency \in 1..MaxConcurrency
  /\ running = 0
  /\ queue = <<>>
  /\ tstate = [t \in ids |-> "new"]
  /\ tkind = [t \in ids |-> "async"]
  /\ addPromise = [t \in ids |-> "none"]
  /\ startOrder = <<>>

\* a client calls add(task); tasks are numbered in the order of the calls
Add(t, k) ==
  /\ tstate[t] = "new"
  /\ \A u \in DOMAIN tstate : u < t => tstate[u] # "new"
  /\ LET s == add(QS, t, k) IN
     /\ SetQ(s)
     /\ addPromise' = [addPromise EXCEPT ![t] = IF s.threw THEN "rejected" ELSE "pending"]
  /\ UNCHANGED notQ

\* the promise returned by a running task fulfils
TaskFulfils(t) ==
  /\ tstate[t] = "running"
  /\ tstate' = [tstate EXCEPT ![t] = "fulfilled"]
  /\ UNCHANGED <<concurrency, running, queue, tkind, addPromise, startOrder>>
  /\ UNCHANGED notQ

\* the promise returned by a running task rejects
TaskRejects(t) ==
  /\ tstate[t] = "running"
  /\ tstate' = [tstate EXCEPT ![t] = "rejected"]
  /\ UNCHANGED <<concurrency, running, queue, tkind, addPromise, startOrder>>
  /\ UNCHANGED notQ

\* the .then callback of next(): running--, resolve(result), next()
ThenCallback(t) ==
  /\ tstate[t] = "fulfilled"
  /\ LET s == next([QS EXCEPT !.running = running - 1]) IN
     /\ SetQ([s EXCEPT !.tstate[t] = IF s.threw THEN "rethrown" ELSE "settled"])
     /\ addPromise' = [addPromise EXCEPT ![t] = "resolved"]
  /\ UNCHANGED notQ

\* the .catch callback of next(): running--, reject(error), next()
CatchCallback(t) ==
  /\ tstate[t] \in {"rejected", "rethrown"}
  /\ LET s == next([QS EXCEPT !.running = running - 1]) IN
     /\ SetQ([s EXCEPT !.tstate[t] = "settled"])
     /\ addPromise' = [addPromise EXCEPT ![t] =
                         IF addPromise[t] = "pending" THEN "rejected" ELSE addPromise[t]]
  /\ UNCHANGED notQ

(***************************************************************************)
(* The resumable queued collector: collectDataForQuery, saveProgress,      *)
(* loadProgress, isTaskCompleted and main.                                 *)
(***************************************************************************)

\* the list CITIES, shortened to its first two entries
CITIES == <<"Moskva", "Balashikha">>
\* the keywords returned by loadKeywords()
keywords == [i \in 1..MaxKeywords |-> i]
\* const totalTasks = keywords.length * CITIES.length
totalTasks == Len(keywords) * Len(CITIES)
\* the tasks of main in the order of its two loops: city outside, keyword inside
MainTaskIds == 1..totalTasks
cityOf(i) == CITIES[((i - 1) \div Len(keywords)) + 1]
keywordOf(i) == keywords[((i - 1) % Len(keywords)) + 1]
CityNames == {CITIES[c] : c \in 1..Len(CITIES)}
KeywordSet == {keywords[k] : k \in 1..Len(keywords)}

\* default parameter maxRetries of collectDataForQuery
maxRetries == 3

\* an absent value (no file, null, no such key) is the empty sequence, a present
\* value v the one-element sequence <<v>>
None == <<>>
Some(v) == <<v>>
NoFile == None
NoEntry == None
\* citiesData right after main has initialised every city with keywords: {}
EmptyCitiesData == [c \in CityNames |-> [k \in KeywordSet |-> NoEntry]]
\* what loadProgress returns when there is no readable file
EmptyProgress == [completedTasks |-> <<>>, lastResults |-> None]

\* The search API as seen by one call of fetchFunc: "hits" answers with results,
\* "nohits" answers with an empty result list, "flaky" fails on the first
\* attempt and answers with results afterwards, "down" fails on every attempt.
\* "signal15" answers every attempt with the API error 15, "no results for this
\* query", "fatal" answers every attempt with an error that no repetition can
\* cure (invalid key, malformed request, no balance).  upstream fixes one kind per task and engine for a whole experiment,
\* so that an interrupted and an uninterrupted collection can be compared.
UpstreamPairs ==
  << [yandex |-> "hits", google |-> "nohits"],
     [yandex |-> "flaky", google |-> "hits"],
     [yandex |-> "fatal", google |-> "hits"],
     [yandex |-> "nohits", google |-> "signal15"],
     [yandex |-> "signal15", google |-> "down"] >>
\* scenarios 0 and 2 deal the five pairs out to the tasks in turn, from the
\* third and from the fourth pair on; in scenario 1 no request fails for good
Scenarios == 0..1
SeqScenarios == 1..2
UpstreamOf(sc) ==
  [i \in MainTaskIds |->
     IF sc = 1 THEN UpstreamPairs[(i % 2) + 1]
     ELSE UpstreamPairs[((i + 1 + (sc \div 2)) % 5) + 1]]

\* one call of fetchFunc, the attempt-th for this request (0-based)
fetchFunc(kind, attempt) ==
  CASE kind = "hits" -> "hits"
    [] kind = "nohits" -> "nohits"
    [] kind = "flaky" -> IF attempt = 0 THEN "error" ELSE "hits"
    [] kind \in {"down", "signal15", "fatal"} -> "error"

\* fetchWithRetry(fetchFunc, retryCount): the value it returns ("error" when it
\* throws) and the number of calls of fetchFunc it has made
RECURSIVE fetchWithRetry(_, _)
fetchWithRetry(kind, retryCount) ==
  LET r == fetchFunc(kind, retryCount) IN
  IF r # "error" THEN [value |-> r, calls |-> retryCount + 1]
  ELSE IF retryCount < maxRetries THEN fetchWithRetry(kind, retryCount + 1)
  ELSE [value |-> "error", calls |-> retryCount + 1]

\* isTaskCompleted(progress, keyword, cityName)
isTaskCompletedByKeyword(p, keyword, cityName) ==
  \E j \in 1..Len(p.completedTasks) : p.completedTasks[j].keyword = keyword
isTaskCompletedNever(p, keyword, cityName) == FALSE
isTaskCompleted(p, keyword, cityName) ==
  \E j \in 1..Len(p.completedTasks) :
    /\ p.completedTasks[j].keyword = keyword
    /\ p.completedTasks[j].cityName = cityName

\* what writeJsonSync(PROGRESS_FILE, progress) puts in the file: lastResults is
\* the object allResults itself, so the file holds a copy of its present value
toJsonNoResults(p, ar) ==
  Some([completedTasks |-> p.completedTasks, lastResults |-> None])
toJsonStale(p, ar) ==
  Some([completedTasks |-> SubSeq(p.completedTasks, 1, Len(p.completedTasks) - 1),
        lastResults |-> IF p.lastResults = None THEN None ELSE Some(ar)])
toJson(p, ar) ==
  Some([completedTasks |-> p.completedTasks,
        lastResults |-> IF p.lastResults = None THEN None ELSE Some(ar)])

\* loadProgress(): the parsed file, or the empty progress
loadProgress(d) == IF d = NoFile THEN EmptyProgress ELSE d[1]

InitMain(ids) ==
  /\ pcMain = "stopped"
  /\ loadedTasks = {}
  /\ disk = NoFile
  /\ progress = EmptyProgress
  /\ allResults = EmptyCitiesData
  /\ completedTasks = 0
  /\ cpc = [t \in ids |-> "idle"]
  /\ result = [t \in ids |-> [yandex |-> "null", google |-> "null"]]
  /\ fetchCalls = [t \in ids |-> 0]

\* main up to "await Promise.all(promises)": loads the progress, takes over or
\* creates allResults, creates the queue and adds every task not yet completed
RECURSIVE addAll(_, _, _)
addAll(s, p, i) ==
  IF i > totalTasks THEN s
  ELSE IF isTaskCompleted(p, keywordOf(i), cityOf(i)) THEN addAll(s, p, i + 1)
  ELSE addAll(add(s, i, "async"), p, i + 1)

MainStart ==
  /\ pcMain = "stopped"
  /\ LET p == loadProgress(disk)
         s == addAll(QS, p, 1) IN
     /\ progress' = [p EXCEPT !.lastResults = IF p.lastResults = None THEN None ELSE Some("allResults")]
     /\ allResults' = IF p.lastResults = None THEN EmptyCitiesData ELSE p.lastResults[1]
     /\ completedTasks' = Len(p.completedTasks)
     /\ loadedTasks' = {p.completedTasks[j] : j \in 1..Len(p.completedTasks)}
     /\ SetQ(s)
     /\ addPromise' = [t \in MainTaskIds |->
                         IF isTaskCompleted(p, keywordOf(t), cityOf(t)) THEN "none" ELSE "pending"]
     /\ cpc' = [t \in MainTaskIds |->
                  IF isTaskCompleted(p, keywordOf(t), cityOf(t)) THEN "idle" ELSE "collecting"]
  /\ pcMain' = "waiting"
  /\ UNCHANGED <<disk, result, fetchCalls, evars>>
  /\ UNCHANGED <<svars, gvars, avars, tvars>>

\* collectDataForQuery: the Yandex request with its retries, then the Google
\* request with its retries; a request that fails for good leaves its field at
\* the error value and the function returns result all the same
CollectData(t) ==
  /\ pcMain = "waiting" /\ tstate[t] = "running" /\ cpc[t] = "collecting"
  /\ LET y == fetchWithRetry(upstream[t].yandex, 0)
         g == fetchWithRetry(upstream[t].google, 0) IN
     /\ result' = [result EXCEPT ![t] = [yandex |-> y.value, google |-> g.value]]
     /\ fetchCalls' = [fetchCalls EXCEPT ![t] = @ + y.calls + g.calls]
  /\ cpc' = [cpc EXCEPT ![t] = "returned"]
  /\ UNCHANGED <<qvars, evars, pcMain, loadedTasks, disk, progress, allResults,
                 completedTasks>>
  /\ UNCHANGED <<svars, gvars, avars, tvars>>

\* the callback main chains to collectDataForQuery: records the outcome, lists
\* the task as completed and saves the progress; a failed write is only logged
recordOutcomeLost(ar, t, r) == ar
recordOutcomeAlone(ar, t, r) ==
  [EmptyCitiesData EXCEPT ![cityOf(t)][keywordOf(t)] =
     Some([yandex |-> r.yandex, google |-> r.google])]
recordOutcome(ar, t, r) ==
  IF ar[cityOf(t)][keywordOf(t)] = NoEntry
  THEN [ar EXCEPT ![cityOf(t)][keywordOf(t)] = Some([yandex |-> r.yandex, google |-> r.google])]
  ELSE ar

TaskDone(t) ==
  /\ pcMain = "waiting" /\ tstate[t] = "running" /\ cpc[t] = "returned"
  /\ completedTasks' = completedTasks + 1
  /\ allResults' = recordOutcome(allResults, t, result[t])
  /\ progress' = [completedTasks |->
                    Append(progress.completedTasks,
                           [keyword |-> keywordOf(t), cityName |-> cityOf(t)]),
                  lastResults |-> Some("allResults")]
  /\ \E ok \in BOOLEAN :
       /\ ok \/ failedWrites < MaxIoFailures
       /\ disk' = IF ok THEN toJson(progress', allResults') ELSE disk
       /\ failedWrites' = IF ok THEN 0 ELSE failedWrites + 1
  /\ cpc' = [cpc EXCEPT ![t] = "handled"]
  /\ tstate' = [tstate EXCEPT ![t] = "fulfilled"]
  /\ UNCHANGED <<concurrency, running, queue, tkind, addPromise, startOrder>>
  /\ UNCHANGED <<pcMain, loadedTasks, result, fetchCalls, restarts, upstream>>
  /\ UNCHANGED <<svars, gvars, avars, tvars>>

\* what collectDataForQuery can return, as far as main looks at it
Outcomes ==
  { [yandex |-> "hits", google |-> "nohits"],
    [yandex |-> "error", google |-> "hits"] }

\* the same callback for a task named by its key (cityName, keyword) instead
\* of its place in the enumeration: loadKeywords keeps a line that occurs twice
\* in the keyword file, and main then adds one task per occurrence, all with
\* the same key; r is what collectDataForQuery returned for the task
RecordCompleted(cityName, keyword, r) ==
  /\ pcMain = "waiting"
  /\ completedTasks < MaxRecordings
  /\ completedTasks' = completedTasks + 1
  /\ allResults' =
       IF allResults[cityName][keyword] = NoEntry
       THEN [allResults EXCEPT ![cityName][keyword] = Some(r)]
       ELSE allResults
  /\ progress' = [completedTasks |->
                    Append(progress.completedTasks,
                           [keyword |-> keyword, cityName |-> cityName]),
                  lastResults |-> Some("allResults")]
  /\ \E ok \in BOOLEAN :
       /\ ok \/ failedWrites < MaxIoFailures
       /\ disk' = IF ok THEN toJson(progress', allResults') ELSE disk
       /\ failedWrites' = IF ok THEN 0 ELSE failedWrites + 1
  /\ UNCHANGED <<qvars, pcMain, loadedTasks, cpc, result, fetchCalls, restarts, upstream>>
  /\ UNCHANGED <<svars, gvars, avars, tvars>>

\* fs.removeSync(PROGRESS_FILE) inside try/catch: the file is gone, or the
\* removal fails with an I/O error that is only logged and the file stays
removeProgressNever(d, ok) == d
removeProgress(d, ok) == IF ok THEN NoFile ELSE d

\* main after Promise.all: every added task has resolved; the progress file is
\* removed, if it exists, when completedTasks >= totalTasks
MainFinish ==
  /\ pcMain = "waiting"
  /\ \A t \in MainTaskIds : addPromise[t] \in {"none", "resolved"}
  /\ IF completedTasks >= totalTasks /\ disk # NoFile
     THEN \E ok \in BOOLEAN :
            /\ ok \/ failedWrites < MaxIoFailures
            /\ disk' = removeProgress(disk, ok)
            /\ failedWrites' = IF ok THEN 0 ELSE failedWrites + 1
     ELSE UNCHANGED <<disk, failedWrites>>
  /\ pcMain' = "done"
  /\ UNCHANGED <<qvars, restarts, upstream, loadedTasks, progress, allResults,
                 completedTasks, cpc, result, fetchCalls>>
  /\ UNCHANGED <<svars, gvars, avars, tvars>>

\* the process is stopped while main waits for its tasks: the memory is lost,
\* the progress file stays
Crash ==
  /\ pcMain = "waiting"
  /\ restarts < MaxRestarts
  /\ restarts' = restarts + 1
  /\ pcMain' = "stopped"
  /\ running' = 0 /\ queue' = <<>> /\ startOrder' = <<>>
  /\ tstate' = [t \in MainTaskIds |-> "new"]
  /\ addPromise' = [t \in MainTaskIds |-> "none"]
  /\ progress' = EmptyProgress
  /\ allResults' = EmptyCitiesData
  /\ completedTasks' = 0
  /\ cpc' = [t \in MainTaskIds |-> "idle"]
  /\ result' = [t \in MainTaskIds |-> [yandex |-> "null", google |-> "null"]]
  /\ fetchCalls' = [t \in MainTaskIds |-> 0]
  /\ loadedTasks' = {}
  /\ failedWrites' = 0
  /\ UNCHANGED <<concurrency, tkind, disk, upstream>>
  /\ UNCHANGED <<svars, gvars, avars, tvars>>

(***************************************************************************)
(* The sequential collector: main of serp-collector.js.  Its steps are the *)
(* pieces of main between two awaits or file writes, so that the process   *)
(* can be stopped between any two of them.                                 *)
(***************************************************************************)

\* the list MAJOR_CITIES, shortened to its first two entries
MAJOR_CITIES == <<"Moskva", "Sankt-Peterburg">>
\* const cities = Object.entries(MAJOR_CITIES).map(...)
cities == MAJOR_CITIES
SeqCityNames == {cities[c] : c \in 1..Len(cities)}
\* the task of the 0-based loop indices (cityIndex, keywordIndex), numbered in
\* the order of the two loops, and the indices of a task
taskOf(ci, ki) == ci * Len(keywords) + ki + 1
SeqTaskIds == 1..(Len(cities) * Len(keywords))
seqCityOf(i) == cities[((i - 1) \div Len(keywords)) + 1]
seqKeywordOf(i) == keywords[((i - 1) % Len(keywords)) + 1]

\* allResults.citiesData before any city is initialised ({}), and the value a
\* city is initialised with (keywords: {})
NoCitiesData == [c \in SeqCityNames |-> None]
NoKeywords == [k \in KeywordSet |-> NoEntry]

\* what one call of getUniqueResults for a task gives when the search API
\* answers every request of the task in the same way: results (at once or
\* after a retry), an empty array when the pages hold no results, an array
\* holding only the marker {empty: true, ...} when the API signals error 15,
\* and an exception when the first page fails for good
getUniqueResultsFor(kind) ==
  CASE kind \in {"hits", "flaky"} ->
         [threw |-> FALSE, results |-> <<"result 1", "result 2">>]
    [] kind = "nohits" -> [threw |-> FALSE, results |-> <<>>]
    [] kind = "signal15" -> [threw |-> FALSE, results |-> <<"empty marker">>]
    [] kind \in {"down", "fatal"} -> [threw |-> TRUE, results |-> <<>>]

\* loadIntermediateResults(resumeFile) and the start position taken from it
loadIntermediateResults(f) == IF f = NoFile THEN None ELSE f
startPositionFromScratch(f) == [city |-> 0, keyword |-> 0]
startPosition(f) ==
  IF loadIntermediateResults(f) = None
  THEN [city |-> 0, keyword |-> 0]
  ELSE [city |-> f[1].currentCityIndex, keyword |-> f[1].currentKeywordIndex]

\* the head of the keyword loop: the next keyword is fetched, or the loop is
\* over and the file of the city is written
keywordLoop(ki) == IF ki < Len(keywords) THEN "yandex" ELSE "saveCity"
\* the head of the city loop, which initialises citiesData[city.name] when absent
initCity(cd, ci) ==
  IF cd[cities[ci + 1]] = None THEN [cd EXCEPT ![cities[ci + 1]] = Some(NoKeywords)] ELSE cd

InitSeq ==
  /\ sPc = "stopped"
  /\ seqResults = NoCitiesData
  /\ cityIndex = 0 /\ keywordIndex = 0
  /\ startFromCity = 0 /\ startFromKeyword = 0
  /\ yandexResults = <<>>
  /\ fetched = {}
  /\ resumeFile = NoFile
  /\ cityFiles = [c \in SeqCityNames |-> NoFile]
  /\ finalReport = NoFile
  /\ errorRecovery = NoFile

\* saveResults(data, fileName): one write, which succeeds or fails with an
\* I/O error that saveResults only logs
writeOk(ok) ==
  /\ ok \/ failedWrites < MaxIoFailures
  /\ failedWrites' = IF ok THEN 0 ELSE failedWrites + 1

\* main from its start to the first call of getUniqueResults: a fresh
\* allResults, the start position from the progress file, the first city
SeqStart ==
  /\ sPc = "stopped"
  /\ LET p == startPosition(resumeFile) IN
     /\ startFromCity' = p.city
     /\ startFromKeyword' = p.keyword
     /\ cityIndex' = p.city
     /\ keywordIndex' = p.keyword
     /\ IF p.city < Len(cities)
        THEN /\ seqResults' = initCity(NoCitiesData, p.city)
             /\ sPc' = keywordLoop(p.keyword)
        ELSE /\ seqResults' = NoCitiesData
             /\ sPc' = "saveFinal"
  /\ fetched' = {}
  /\ yandexResults' = <<>>
  /\ UNCHANGED <<resumeFile, cityFiles, finalReport, errorRecovery>>
  /\ UNCHANGED <<qvars, rvars, evars, gvars, avars, tvars>>

\* the keyword has no entry yet: await getUniqueResults(api, keyword, city,
\* 'YANDEX'); an exception leaves both loops for the catch block of main
SeqYandex ==
  /\ sPc = "yandex"
  /\ LET t == taskOf(cityIndex, keywordIndex)
         r == getUniqueResultsFor(upstream[t].yandex) IN
     IF seqResults[cities[cityIndex + 1]][1][keywords[keywordIndex + 1]] # NoEntry
     THEN /\ sPc' = "saveProgress"
          /\ UNCHANGED <<fetched, yandexResults>>
     ELSE /\ fetched' = fetched \cup {t}
          /\ yandexResults' = r.results
          /\ sPc' = IF r.threw THEN "recoverFailed" ELSE "google"
  /\ UNCHANGED <<seqResults, cityIndex, keywordIndex, startFromCity, startFromKeyword,
                 resumeFile, cityFiles, finalReport, errorRecovery>>
  /\ UNCHANGED <<qvars, rvars, evars, gvars, avars, tvars>>

\* await getUniqueResults(api, keyword, city, 'GOOGLE') and the assignment of
\* the entry of the keyword
SeqGoogle ==
  /\ sPc = "google"
  /\ LET t == taskOf(cityIndex, keywordIndex)
         r == getUniqueResultsFor(upstream[t].google) IN
     IF r.threw
     THEN /\ sPc' = "recoverFailed"
          /\ UNCHANGED seqResults
     ELSE /\ seqResults' =
               [seqResults EXCEPT ![cities[cityIndex + 1]][1][keywords[keywordIndex + 1]] =
                  Some([yandex |-> yandexResults, google |-> r.results])]
          /\ sPc' = "saveKeyword"
  /\ UNCHANGED <<cityIndex, keywordIndex, startFromCity, startFromKeyword, yandexResults,
                 fetched, resumeFile, cityFiles, finalReport, errorRecovery>>
  /\ UNCHANGED <<qvars, rvars, evars, gvars, avars, tvars>>

\* saveResults of the result file of the keyword, a file nothing reads again
SeqSaveKeyword ==
  /\ sPc = "saveKeyword"
  /\ \E ok \in BOOLEAN : writeOk(ok)
  /\ sPc' = "saveProgress"
  /\ UNCHANGED <<seqResults, cityIndex, keywordIndex, startFromCity, startFromKeyword,
                 yandexResults, fetched, resumeFile, cityFiles, finalReport, errorRecovery>>
  /\ UNCHANGED <<qvars, rvars, restarts, upstream, gvars, avars, tvars>>

\* saveResults of the progress with the index of the next keyword, then
\* keywordIndex++ and the head of the keyword loop
SeqSaveProgress ==
  /\ sPc = "saveProgress"
  /\ \E ok \in BOOLEAN :
       /\ writeOk(ok)
       /\ resumeFile' =
            IF ok THEN Some([currentCityIndex |-> cityIndex,
                             currentKeywordIndex |-> keywordIndex + 1])
            ELSE resumeFile
  /\ keywordIndex' = keywordIndex + 1
  /\ sPc' = keywordLoop(keywordIndex + 1)
  /\ UNCHANGED <<seqResults, cityIndex, startFromCity, startFromKeyword, yandexResults,
                 fetched, cityFiles, finalReport, errorRecovery>>
  /\ UNCHANGED <<qvars, rvars, restarts, upstream, gvars, avars, tvars>>

\* saveResults of the file of the city; the last city ends the city loop
SeqSaveCity ==
  /\ sPc = "saveCity"
  /\ \E ok \in BOOLEAN :
       /\ writeOk(ok)
       /\ cityFiles' =
            IF ok THEN [cityFiles EXCEPT ![cities[cityIndex + 1]] = seqResults[cities[cityIndex + 1]]]
            ELSE cityFiles
  /\ IF cityIndex < Len(cities) - 1
     THEN sPc' = "pause" /\ UNCHANGED cityIndex
     ELSE sPc' = "saveFinal" /\ cityIndex' = cityIndex + 1
  /\ UNCHANGED <<seqResults, keywordIndex, startFromCity, startFromKeyword, yandexResults,
                 fetched, resumeFile, finalReport, errorRecovery>>
  /\ UNCHANGED <<qvars, rvars, restarts, upstream, gvars, avars, tvars>>

\* the pause between two cities, cityIndex++ and the head of the city loop
SeqPause ==
  /\ sPc = "pause"
  /\ cityIndex' = cityIndex + 1
  /\ seqResults' = initCity(seqResults, cityIndex + 1)
  /\ keywordIndex' = IF cityIndex + 1 = startFromCity THEN startFromKeyword ELSE 0
  /\ sPc' = keywordLoop(keywordIndex')
  /\ UNCHANGED <<startFromCity, startFromKeyword, yandexResults, fetched, resumeFile,
                 cityFiles, finalReport, errorRecovery>>
  /\ UNCHANGED <<qvars, rvars, evars, gvars, avars, tvars>>

\* saveResults(allResults, 'full_report_...')
SeqSaveFinal ==
  /\ sPc = "saveFinal"
  /\ \E ok \in BOOLEAN :
       /\ writeOk(ok)
       /\ finalReport' = IF ok THEN Some(seqResults) ELSE finalReport
  /\ sPc' = "unlink"
  /\ UNCHANGED <<seqResults, cityIndex, keywordIndex, startFromCity, startFromKeyword,
                 yandexResults, fetched, resumeFile, cityFiles, errorRecovery>>
  /\ UNCHANGED <<qvars, rvars, restarts, upstream, gvars, avars, tvars>>

\* the progress file is removed when it exists; a failure is only logged
SeqUnlink ==
  /\ sPc = "unlink"
  /\ IF resumeFile = NoFile
     THEN UNCHANGED <<resumeFile, failedWrites>>
     ELSE \E ok \in BOOLEAN :
            /\ writeOk(ok)
            /\ resumeFile' = IF ok THEN NoFile ELSE resumeFile
  /\ sPc' = "balance"
  /\ UNCHANGED <<seqResults, cityIndex, keywordIndex, startFromCity, startFromKeyword,
                 yandexResults, fetched, cityFiles, finalReport, errorRecovery>>
  /\ UNCHANGED <<qvars, rvars, restarts, upstream, gvars, avars, tvars>>

\* await api.getBalance() at the end of the try block; the statement after it
\* reads the undeclared name error, so that the try block always ends in the
\* catch block of main
SeqBalance ==
  /\ sPc = "balance"
  /\ sPc' = "recoverDone"
  /\ UNCHANGED <<seqResults, cityIndex, keywordIndex, startFromCity, startFromKeyword,
                 yandexResults, fetched, resumeFile, cityFiles, finalReport,
                 errorRecovery>>
  /\ UNCHANGED <<qvars, rvars, evars, gvars, avars, tvars>>

\* the catch block of main: saveResults(allResults, 'error_recovery_...'),
\* after which main returns
SeqCatch ==
  /\ sPc \in {"recoverDone", "recoverFailed"}
  /\ \E ok \in BOOLEAN :
       /\ writeOk(ok)
       /\ errorRecovery' = IF ok THEN Some(seqResults) ELSE errorRecovery
  /\ sPc' = IF sPc = "recoverDone" THEN "done" ELSE "failed"
  /\ UNCHANGED <<seqResults, cityIndex, keywordIndex, startFromCity, startFromKeyword,
                 yandexResults, fetched, resumeFile, cityFiles, finalReport>>
  /\ UNCHANGED <<qvars, rvars, restarts, upstream, gvars, avars, tvars>>

\* the process is stopped while main runs: the memory is lost, the files stay
SeqCrash ==
  /\ sPc \notin {"stopped", "done", "failed"}
  /\ restarts < MaxRestarts
  /\ restarts' = restarts + 1
  /\ failedWrites' = 0
  /\ sPc' = "stopped"
  /\ seqResults' = NoCitiesData
  /\ cityIndex' = 0 /\ keywordIndex' = 0
  /\ startFromCity' = 0 /\ startFromKeyword' = 0
  /\ yandexResults' = <<>>
  /\ fetched' = {}
  /\ UNCHANGED <<resumeFile, cityFiles, finalReport, errorRecovery>>
  /\ UNCHANGED <<qvars, rvars, upstream, gvars, avars, tvars>>

(***************************************************************************)
(* getUniqueResults of serp-collector.js, one call.  A search request is   *)
(* answered by a page of results or fails with an error; the steps are the *)
(* pieces of the function between two awaits.                              *)
(***************************************************************************)

\* CONFIG.collection.initialBackoff, in ms
initialBackoff == 1000
\* const PAGE_OFFSET
PAGE_OFFSET == 1

\* result.url of a search result: one of the urls, or NoUrl for a result
\* without url
NoUrl == 0
Urls == 1..MaxUrls
\* results.results of an answered request
Pages == UNION {[1..n -> Urls \cup {NoUrl}] : n \in 0..MaxPageLen}
\* the errors of a request: code is requestError.code || 0, retryPhrase says
\* that the message holds one of the three phrases asking for a new request,
\* emptyPhrase that it holds one of the phrases of "no results for the query"
Errors ==
  { [code |-> 500, retryPhrase |-> FALSE, emptyPhrase |-> FALSE],
    [code |-> 111, retryPhrase |-> FALSE, emptyPhrase |-> FALSE],
    [code |-> 0, retryPhrase |-> TRUE, emptyPhrase |-> FALSE],
    [code |-> 0, retryPhrase |-> FALSE, emptyPhrase |-> TRUE],
    [code |-> 0, retryPhrase |-> FALSE, emptyPhrase |-> FALSE] }

\* getUniqueResults only asks of a url whether it was seen before, so the urls
\* are named in the order in which a call meets them: with k urls seen, the
\* next new url of an answer is k + 1, and a result that repeats a url seen
\* before is written as a repetition of url 1
RECURSIVE inOrderOfAppearance(_, _)
inOrderOfAppearance(p, k) ==
  IF p = <<>> THEN TRUE
  ELSE IF Head(p) = NoUrl \/ (Head(p) = 1 /\ k >= 1)
       THEN inOrderOfAppearance(Tail(p), k)
  ELSE Head(p) = k + 1 /\ inOrderOfAppearance(Tail(p), k + 1)

\* the same pages built directly: every result of a page is one without url,
\* one that repeats a url seen before, or one with a new url
ResultKinds == {"nourl", "seen", "new"}
PageKinds == UNION {[1..n -> ResultKinds] : n \in 0..MaxPageLen}
RECURSIVE pageOf(_, _)
pageOf(kinds, k) ==
  IF kinds = <<>> THEN <<>>
  ELSE IF Head(kinds) = "nourl" THEN <<NoUrl>> \o pageOf(Tail(kinds), k)
  ELSE IF Head(kinds) = "seen" THEN <<1>> \o pageOf(Tail(kinds), k)
  ELSE <<k + 1>> \o pageOf(Tail(kinds), k + 1)
\* the answers a call can get once it has seen k urls
PagesAfter ==
  [k \in 0..MaxUrls |->
     {p \in {pageOf(kinds, k) : kinds \in PageKinds} :
        p \in Pages /\ inOrderOfAppearance(p, k)}]

Engines == {"YANDEX", "GOOGLE"}
\* let page = engine === 'YANDEX' ? 0 : 1
firstPage(e) == IF e = "YANDEX" THEN 0 ELSE 1

\* the condition of the while loop over the pages
whileGuardNoTarget(size, pg) == pg < maxPages
whileGuardInclusive(size, pg) == size < targetUniqueResults /\ pg <= maxPages
whileGuard(size, pg) == size < targetUniqueResults /\ pg < maxPages

isRetryableError(e) == e.code \in {500, 111} \/ e.retryPhrase
isEmptySignal(e) == e.emptyPhrase

\* the loop over pageResults: a result with a url not seen before is added to
\* uniqueUrls and pushed with its page and globalPosition
RECURSIVE addPage(_, _, _)
addPageKeepsAll(st, pageResults, pg) ==
  [uniqueUrls |-> (st.uniqueUrls \cup {pageResults[i] : i \in 1..Len(pageResults)}) \ {NoUrl},
   uniqueResults |-> st.uniqueResults \o
                     [i \in 1..Len(pageResults) |->
                        [url |-> pageResults[i], page |-> pg + PAGE_OFFSET,
                         globalPosition |-> Len(st.uniqueResults) + i]]]
addPage(st, pageResults, pg) ==
  IF pageResults = <<>> THEN st
  ELSE LET r == Head(pageResults) IN
       addPage(IF r # NoUrl /\ r \notin st.uniqueUrls
               THEN [uniqueUrls |-> st.uniqueUrls \cup {r},
                     uniqueResults |-> Append(st.uniqueResults,
                                              [url |-> r, page |-> pg + PAGE_OFFSET,
                                               globalPosition |-> Len(st.uniqueResults) + 1])]
               ELSE st,
               Tail(pageResults), pg)

\* the object pushed when the API signals that the query has no results
emptyMarker(e) ==
  [empty |-> TRUE, reason |-> "no results for the query", query |-> "query", engine |-> e]

InitG ==
  /\ gpc = "idle"
  /\ engine = "YANDEX"
  /\ page = 0
  /\ uniqueUrls = {}
  /\ uniqueResults = <<>>
  /\ retries = 0
  /\ backoff = initialBackoff
  /\ waited = 0
  /\ attempts = 0
  /\ optionsRetryCount = 0
  /\ requests = 0
  /\ pagesFetched = 0
  /\ lastResponse = "none"
  /\ calls = 0
  /\ seenEarlier = {}

\* how a search request can end: with a page that holds at least one new url
\* ("results"), with a page whose records bring no new url ("duplicates"),
\* with a page without records ("norecords"), with an error that is retried
\* ("retried"), with the signal that the query has no results ("emptysignal"),
\* or with any other error that reaches the catch block of the page ("failed")
pageResponse(p, newUniqueCount) ==
  IF Len(p) = 0 THEN "norecords"
  ELSE IF newUniqueCount = 0 THEN "duplicates" ELSE "results"

\* the head of the while loop with size unique urls at page pg: the next
\* request is prepared, or the function returns uniqueResults
loopHead(size, pg) == gpc' = IF whileGuard(size, pg) THEN "request" ELSE "returned"

\* retries, backoff and the options object are variables of the loop body:
\* they are gone when the body is left and start afresh for the next page
leavePage ==
  /\ retries' = 0
  /\ backoff' = initialBackoff
  /\ waited' = 0
  /\ attempts' = 0
  /\ optionsRetryCount' = 0
  /\ requests' = 0

\* page++ and the pause before the next request, which is left out after the
\* last page
nextPageNoDelay(size) ==
  /\ page' = page + 1
  /\ leavePage
  /\ loopHead(size, page + 1)
nextPage(size) ==
  /\ page' = page + 1
  /\ leavePage
  /\ IF page + 1 < maxPages THEN gpc' = "delay" ELSE loopHead(size, page + 1)

\* the request that is being answered is counted
countRequest ==
  pagesFetched' = IF requests = 0 THEN pagesFetched + 1 ELSE pagesFetched

\* a call of api.searchYandex / api.searchGoogle ends, with the answer or the
\* error of its last HTTP request; the options object stays as it is, and
\* nothing is slept
endOfCall ==
  /\ attempts' = attempts + 1
  /\ requests' = requests + 1
  /\ UNCHANGED <<optionsRetryCount, waited>>

\* the call getUniqueResults(api, query, city, e) up to its first request
GetUniqueResults(e) ==
  /\ gpc = "idle"
  /\ engine' = e
  /\ page' = firstPage(e)
  /\ uniqueUrls' = {}
  /\ uniqueResults' = <<>>
  /\ leavePage
  /\ loopHead(0, firstPage(e))
  /\ lastResponse' = "none"
  /\ UNCHANGED pagesFetched
  /\ UNCHANGED <<qvars, rvars, evars, svars, avars, tvars>>

\* const uniqueUrls = new Set() at the start of a call, whatever the Set of
\* the call before holds
newSetShared(old) == old
newSet(old) == {}

\* the call has returned its uniqueResults to main, which calls
\* getUniqueResults again: for the other engine, the next keyword or the
\* next city
NextCall(e) ==
  /\ gpc = "returned"
  /\ calls < MaxCalls
  /\ calls' = calls + 1
  /\ seenEarlier' = seenEarlier \cup uniqueUrls
  /\ engine' = e
  /\ page' = firstPage(e)
  /\ uniqueUrls' = newSet(uniqueUrls)
  /\ uniqueResults' = <<>>
  /\ leavePage
  /\ loopHead(Cardinality(newSet(uniqueUrls)), firstPage(e))
  /\ lastResponse' = "none"
  /\ pagesFetched' = 0
  /\ UNCHANGED <<qvars, rvars, evars, svars, avars>>

\* api.searchYandex / api.searchGoogle answers with the page p: its results
\* are deduplicated; a page with results but without a new url ends the
\* function, every other page leads to the next one
SearchAnswers(p) ==
  /\ gpc = "request"
  /\ inOrderOfAppearance(p, Cardinality(uniqueUrls))
  /\ countRequest
  /\ LET st == addPage([uniqueUrls |-> uniqueUrls, uniqueResults |-> uniqueResults], p, page)
         newUniqueCount == Cardinality(st.uniqueUrls) - Cardinality(uniqueUrls) IN
     /\ uniqueUrls' = st.uniqueUrls
     /\ uniqueResults' = st.uniqueResults
     /\ lastResponse' = pageResponse(p, newUniqueCount)
     /\ IF Len(p) > 0 /\ newUniqueCount = 0
        THEN /\ gpc' = "returned"
             /\ endOfCall
             /\ UNCHANGED <<page, retries, backoff>>
        ELSE nextPage(Cardinality(st.uniqueUrls))
  /\ UNCHANGED engine
  /\ UNCHANGED <<qvars, rvars, evars, svars, avars, tvars>>

\* the condition under which the catch block of the page throws: the error e
\* struck the first page, nothing was collected, and its code is not 111
isCriticalOnAnyPage(e) == Len(uniqueResults) = 0 /\ e.code # 111
isCritical(e) ==
  page = firstPage(engine) /\ Len(uniqueResults) = 0 /\ e.code # 111

\* the catch block of the retry loop and the catch block of the page for the
\* error e of a call of api.search...: the call is repeated after a backoff,
\* or the function ends with the marker of an empty answer, throws, or goes
\* on to the next page
requestError(e) ==
  IF isRetryableError(e) /\ retries < collectionMaxRetries
  THEN /\ retries' = retries + 1
       /\ endOfCall
       /\ lastResponse' = "retried"
       /\ gpc' = "backoff"
       /\ UNCHANGED <<page, backoff, uniqueResults>>
  ELSE IF isEmptySignal(e)
  THEN /\ uniqueResults' = Append(uniqueResults, emptyMarker(engine))
       /\ endOfCall
       /\ lastResponse' = "emptysignal"
       /\ gpc' = "returned"
       /\ UNCHANGED <<page, retries, backoff>>
  ELSE IF isCritical(e)
  THEN /\ gpc' = "thrown"
       /\ endOfCall
       /\ lastResponse' = "failed"
       /\ UNCHANGED <<page, retries, backoff, uniqueResults>>
  ELSE /\ nextPage(Cardinality(uniqueUrls))
       /\ lastResponse' = "failed"
       /\ UNCHANGED uniqueResults

\* processResponse rejects with the error e of the API (performSearch returns
\* its promise without await, so its own catch block does not see e)
SearchFails(e) ==
  /\ gpc = "request"
  /\ countRequest
  /\ requestError(e)
  /\ UNCHANGED <<engine, uniqueUrls>>
  /\ UNCHANGED <<qvars, rvars, evars, svars, avars, tvars>>

\* new Error(`Превышено количество попыток для запроса ...`)
exceeded == [code |-> 0, retryPhrase |-> FALSE, emptyPhrase |-> FALSE]

\* the HTTP request of performSearch fails (axios rejects, or the body is
\* empty): performSearch repeats it, whatever the error, while
\* options.retryCount < this.maxRetries, and throws exceeded after that
RequestFails ==
  /\ gpc = "request"
  /\ countRequest
  /\ IF optionsRetryCount < connectionRetries
     THEN /\ optionsRetryCount' = optionsRetryCount + 1
          /\ requests' = requests + 1
          /\ UNCHANGED <<gpc, page, retries, backoff, waited, attempts,
                         uniqueResults, lastResponse>>
     ELSE requestError(exceeded)
  /\ UNCHANGED <<engine, uniqueUrls>>
  /\ UNCHANGED <<qvars, rvars, evars, svars, avars, tvars>>

\* backoff *= 2
nextBackoffConstant(b) == b
nextBackoff(b) == b * 2

\* the sleep of backoff ms before the request is repeated; backoff doubles
Backoff ==
  /\ gpc = "backoff"
  /\ waited' = waited + backoff
  /\ backoff' = nextBackoff(backoff)
  /\ gpc' = "request"
  /\ UNCHANGED <<engine, page, uniqueUrls, uniqueResults, retries, attempts,
                 optionsRetryCount, requests, pagesFetched, lastResponse>>
  /\ UNCHANGED <<qvars, rvars, evars, svars, avars, tvars>>

\* the pause of delayBetweenRequests, then the head of the while loop
Delay ==
  /\ gpc = "delay"
  /\ loopHead(Cardinality(uniqueUrls), page)
  /\ UNCHANGED <<engine, page, uniqueUrls, uniqueResults, retries, backoff, waited,
                 attempts, optionsRetryCount, requests, pagesFetched, lastResponse>>
  /\ UNCHANGED <<qvars, rvars, evars, svars, avars, tvars>>

(***************************************************************************)
(* XmlRiverApi: the request slots of performSearch (part_001).  A caller   *)
(* calls searchYandex / searchGoogle directly, as the collectors do, or    *)
(* hands the call to enqueueRequest, as batchSearchYandex and              *)
(* batchSearchGoogle do.                                                   *)
(***************************************************************************)
Callers == 1..MaxCallers

\* no call of performSearch has been made
InitSlots ==
  /\ activeRequests = 0
  /\ apc = [c \in Callers |-> "idle"]
  /\ held = [c \in Callers |-> 0]
  /\ aRetryCount = [c \in Callers |-> 0]
  /\ requestQueue = <<>>
  /\ qslot = [c \in Callers |-> 0]
  /\ via = [c \in Callers |-> "none"]

InitApi ==
  /\ maxThreads = MaxThreads
  /\ InitSlots

\* a call of waitForAvailableSlot has returned and the continuation of the
\* caller that awaits it has not run yet; this lasts for microtasks only, so
\* no timer or I/O callback runs meanwhile
someoneChecked == \E c \in Callers : apc[c] = "checked"

\* waitForAvailableSlot up to its return: with a free slot it returns at
\* once, otherwise it starts the interval that polls every 100 ms
slotCheck(active) == IF active < maxThreads THEN "checked" ELSE "polling"
waitForAvailableSlot(c) ==
  apc' = [apc EXCEPT ![c] = slotCheck(activeRequests)]

\* the state the operators of the request queue work on
AS == [active |-> activeRequests, rq |-> requestQueue, apc |-> apc, qslot |-> qslot]

\* processNextRequest(): with a waiting request and a free slot it takes the
\* slot and calls the request function, searchYandex or searchGoogle, which
\* runs performSearch up to await waitForAvailableSlot
processNextRequest(a) ==
  IF Len(a.rq) = 0 \/ a.active >= maxThreads THEN a
  ELSE LET h == Head(a.rq) IN
       [a EXCEPT !.rq = Tail(a.rq),
                 !.active = a.active + 1,
                 !.qslot = [a.qslot EXCEPT ![h] = 1],
                 !.apc = [a.apc EXCEPT ![h] = slotCheck(a.active + 1)]]

\* the finally blocks of n frames of performSearch, the innermost first:
\* this.activeRequests-- and this.processNextRequest()
RECURSIVE finallyBlocks(_, _)
finallyBlocks(a, n) ==
  IF n <= 0 THEN a
  ELSE finallyBlocks(processNextRequest([a EXCEPT !.active = a.active - 1]), n - 1)

\* the .finally callback of processNextRequest for the request of caller c,
\* if c came through the queue
queueFinally(a, c) ==
  IF a.qslot[c] = 0 THEN a
  ELSE processNextRequest([a EXCEPT !.active = a.active - 1,
                                    !.qslot = [a.qslot EXCEPT ![c] = 0]])

\* write a state of the request queue back to the variables
SetA(a) ==
  /\ activeRequests' = a.active
  /\ requestQueue' = a.rq
  /\ apc' = a.apc
  /\ qslot' = a.qslot

\* this.activeRequests++ and axios.get
sendRequest(c) ==
  /\ activeRequests' = activeRequests + 1
  /\ held' = [held EXCEPT ![c] = held[c] + 1]
  /\ apc' = [apc EXCEPT ![c] = "inflight"]
  /\ UNCHANGED <<requestQueue, qslot>>

\* the frames of the call of caller c whose finally block is still to run
framesButOne(c) == held[c] - 1
frames(c) == held[c]

\* the call of caller c ends: the finally blocks of all its frames take back
\* the activeRequests++ of their frames, and the promise chain of
\* processNextRequest settles the promise of enqueueRequest
leavePerformSearch(c, how) ==
  /\ SetA(queueFinally(finallyBlocks([AS EXCEPT !.apc = [apc EXCEPT ![c] = how]],
                                     frames(c)), c))
  /\ held' = [held EXCEPT ![c] = 0]

\* a caller calls performSearch, which runs up to await waitForAvailableSlot
PerformSearch(c) ==
  /\ apc[c] = "idle"
  /\ waitForAvailableSlot(c)
  /\ via' = [via EXCEPT ![c] = "direct"]
  /\ UNCHANGED <<maxThreads, activeRequests, held, aRetryCount, requestQueue, qslot>>
  /\ UNCHANGED <<qvars, rvars, evars, svars, gvars, tvars>>

\* a caller calls enqueueRequest(this.searchYandex.bind(this), [query,
\* options]): the request is pushed and processNextRequest() is called
EnqueueRequest(c) ==
  /\ apc[c] = "idle"
  /\ SetA(processNextRequest([AS EXCEPT !.rq = Append(requestQueue, c),
                                        !.apc = [apc EXCEPT ![c] = "enqueued"]]))
  /\ via' = [via EXCEPT ![c] = "queue"]
  /\ UNCHANGED <<maxThreads, held, aRetryCount>>
  /\ UNCHANGED <<qvars, rvars, evars, svars, gvars, tvars>>

\* the continuation after await waitForAvailableSlot, when the slot was free
\* at the call
TakeSlot(c) ==
  /\ apc[c] = "checked"
  /\ sendRequest(c)
  /\ UNCHANGED <<maxThreads, aRetryCount, via>>
  /\ UNCHANGED <<qvars, rvars, evars, svars, gvars, tvars>>

\* a tick of the interval that finds a slot free: the interval is cleared,
\* the promise resolves and the caller goes on in the same turn of the event
\* loop
IntervalTick(c) ==
  /\ apc[c] = "polling"
  /\ ~someoneChecked
  /\ activeRequests < maxThreads
  /\ sendRequest(c)
  /\ UNCHANGED <<maxThreads, aRetryCount, via>>
  /\ UNCHANGED <<qvars, rvars, evars, svars, gvars, tvars>>

\* the HTTP request is answered: performSearch returns the promise of
\* processResponse, which fulfils or rejects with an error of the API
HttpAnswers(c, how) ==
  /\ apc[c] = "inflight"
  /\ ~someoneChecked
  /\ leavePerformSearch(c, how)
  /\ UNCHANGED <<maxThreads, aRetryCount, via>>
  /\ UNCHANGED <<qvars, rvars, evars, svars, gvars, tvars>>

\* the HTTP request fails or runs into requestTimeout: the catch block
\* counts options.retryCount up and sleeps, or throws after maxRetries
HttpFails(c) ==
  /\ apc[c] = "inflight"
  /\ ~someoneChecked
  /\ IF aRetryCount[c] < connectionRetries
     THEN /\ aRetryCount' = [aRetryCount EXCEPT ![c] = aRetryCount[c] + 1]
          /\ apc' = [apc EXCEPT ![c] = "pause"]
          /\ UNCHANGED <<activeRequests, held, requestQueue, qslot>>
     ELSE /\ leavePerformSearch(c, "thrown")
          /\ UNCHANGED aRetryCount
  /\ UNCHANGED <<maxThreads, via>>
  /\ UNCHANGED <<qvars, rvars, evars, svars, gvars, tvars>>

\* the pause of 2000 * retryCount ms ends and the catch block calls
\* performSearch again, from inside the frame that still holds its slot
PauseEnds(c) ==
  /\ apc[c] = "pause"
  /\ ~someoneChecked
  /\ waitForAvailableSlot(c)
  /\ UNCHANGED <<maxThreads, activeRequests, held, aRetryCount, requestQueue, qslot, via>>
  /\ UNCHANGED <<qvars, rvars, evars, svars, gvars, tvars>>

(***************************************************************************)
(* Specifications.                                                         *)
(***************************************************************************)

\* a TaskQueue driven by an arbitrary client
InitEnv ==
  /\ restarts = 0
  /\ failedWrites = 0

InitQ ==
  /\ InitApi
  /\ InitQueue(TaskIds)
  /\ InitMain(TaskIds)
  /\ InitSeq
  /\ InitG
  /\ InitEnv
  /\ upstream = UpstreamOf(0)

NextQ ==
  \/ \E t \in TaskIds, k \in {"async", "throws"} : Add(t, k)
  \/ \E t \in TaskIds : TaskFulfils(t)
  \/ \E t \in TaskIds : TaskRejects(t)
  \/ \E t \in TaskIds : ThenCallback(t)
  \/ \E t \in TaskIds : CatchCallback(t)

SpecQ == InitQ /\ [][NextQ]_vars

\* the same TaskQueue where every promise of a started task settles in the
\* end and the event loop runs every callback that is due
FairQ ==
  \A t \in TaskIds :
    /\ WF_vars(TaskFulfils(t) \/ TaskRejects(t))
    /\ WF_vars(ThenCallback(t))
    /\ WF_vars(CatchCallback(t))
SpecQLive == SpecQ /\ FairQ

\* the resumable queued collector, stopped and restarted at most MaxRestarts
\* times; main creates its queue with the constant MAX_CONCURRENT
InitR ==
  /\ InitApi
  /\ InitQueue(MainTaskIds)
  /\ concurrency = MaxConcurrency
  /\ InitMain(MainTaskIds)
  /\ InitSeq
  /\ InitG
  /\ InitEnv
  /\ \E sc \in Scenarios : upstream = UpstreamOf(sc)

NextR ==
  \/ MainStart
  \/ \E t \in MainTaskIds : CollectData(t)
  \/ \E t \in MainTaskIds : TaskDone(t)
  \/ \E t \in MainTaskIds : ThenCallback(t)
  \/ MainFinish
  \/ Crash

SpecR == InitR /\ [][NextR]_vars

\* the completions recorded by one run of the resumable collector that found
\* no progress file and whose keyword file may repeat a keyword
InitC ==
  /\ InitApi
  /\ InitQueue(MainTaskIds)
  /\ concurrency = MaxConcurrency
  /\ InitG
  /\ InitSeq
  /\ InitEnv
  /\ upstream = UpstreamOf(0)
  /\ pcMain = "waiting"
  /\ loadedTasks = {}
  /\ disk = NoFile
  /\ progress = EmptyProgress
  /\ allResults = EmptyCitiesData
  /\ completedTasks = 0
  /\ cpc = [t \in MainTaskIds |-> "idle"]
  /\ result = [t \in MainTaskIds |-> [yandex |-> "null", google |-> "null"]]
  /\ fetchCalls = [t \in MainTaskIds |-> 0]

NextC ==
  \E c \in CityNames, k \in KeywordSet, r \in Outcomes : RecordCompleted(c, k, r)

SpecC == InitC /\ [][NextC]_vars

\* the sequential collector, stopped and restarted at most MaxRestarts times
InitS ==
  /\ InitApi
  /\ InitQueue(MainTaskIds)
  /\ InitMain(MainTaskIds)
  /\ InitSeq
  /\ InitG
  /\ InitEnv
  /\ \E sc \in SeqScenarios : upstream = UpstreamOf(sc)

NextS ==
  \/ SeqStart
  \/ SeqYandex
  \/ SeqGoogle
  \/ SeqSaveKeyword
  \/ SeqSaveProgress
  \/ SeqSaveCity
  \/ SeqPause
  \/ SeqSaveFinal
  \/ SeqUnlink
  \/ SeqBalance
  \/ SeqCatch
  \/ SeqCrash

SpecS == InitS /\ [][NextS]_vars

\* one call of getUniqueResults against an arbitrary search API
InitGet ==
  /\ InitApi
  /\ InitQueue(MainTaskIds)
  /\ InitMain(MainTaskIds)
  /\ InitSeq
  /\ InitG
  /\ InitEnv
  /\ upstream = UpstreamOf(0)

NextG ==
  \/ \E e \in Engines : GetUniqueResults(e)
  \/ \E p \in PagesAfter[Cardinality(uniqueUrls)] : SearchAnswers(p)
  \/ \E e \in Errors : SearchFails(e)
  \/ RequestFails
  \/ Backoff
  \/ Delay

SpecG == InitGet /\ [][NextG]_vars

\* concurrent calls of performSearch on one XmlRiverApi
InitA ==
  /\ InitQueue(MainTaskIds)
  /\ concurrency = MaxConcurrency
  /\ InitMain(MainTaskIds)
  /\ InitSeq
  /\ InitG
  /\ InitEnv
  /\ upstream = UpstreamOf(0)
  /\ maxThreads \in 1..MaxThreads
  /\ InitSlots

NextA ==
  \/ \E c \in Callers : PerformSearch(c)
  \/ \E c \in Callers : EnqueueRequest(c)
  \/ \E c \in Callers : TakeSlot(c)
  \/ \E c \in Callers : IntervalTick(c)
  \/ \E c \in Callers, how \in {"returned", "thrown"} : HttpAnswers(c, how)
  \/ \E c \in Callers : HttpFails(c)
  \/ \E c \in Callers : PauseEnds(c)

SpecA == InitA /\ [][NextA]_vars

\* the same calls where every HTTP request completes, every timer fires and
\* every continuation that is due runs
FairA ==
  \A c \in Callers :
    /\ WF_vars(TakeSlot(c))
    /\ WF_vars(IntervalTick(c))
    /\ WF_vars((\E how \in {"returned", "thrown"} : HttpAnswers(c, how)) \/ HttpFails(c))
    /\ WF_vars(PauseEnds(c))
SpecALive == SpecA /\ FairA

\* the calls of getUniqueResults that main makes one after the other, against
\* a search API that answers every request
NextT ==
  \/ \E e \in Engines : GetUniqueResults(e)
  \/ \E e \in Engines : NextCall(e)
  \/ \E p \in PagesAfter[Cardinality(uniqueUrls)] : SearchAnswers(p)
  \/ Delay

SpecT == InitGet /\ [][NextT]_vars

Init == InitQ
Next == NextQ
Spec == SpecQ

(***************************************************************************)
(* Properties.                                                             *)
(***************************************************************************)

\* tasks that have started and whose slot has not been given back
InFlight == {t \in DOMAIN tstate : tstate[t] \in {"running", "fulfilled", "rejected"}}

\* C1: the number of tasks started and not yet settled, and the counter
\* running, never exceed the configured concurrency
C1_ConcurrencyBound ==
  /\ Cardinality(InFlight) <= concurrency
  /\ running <= concurrency

\* C1 witness: the queue is saturated while a further task waits
C1_Witness ==
  /\ Cardinality(InFlight) = concurrency
  /\ Len(queue) > 0
  /\ \E t \in DOMAIN tstate : tstate[t] = "settled"

(***************************************************************************)
(* The resumable queued collector.                                         *)
(***************************************************************************)

taskKey(t) == [keyword |-> keywordOf(t), cityName |-> cityOf(t)]
\* the outcome recorded for task t in a citiesData, or NoEntry
entryOf(cd, t) == cd[cityOf(t)][keywordOf(t)]
\* what an undisturbed collection records for task t, given the upstream
expectedOutcome(t) ==
  [yandex |-> fetchWithRetry(upstream[t].yandex, 0).value,
   google |-> fetchWithRetry(upstream[t].google, 0).value]
\* the tasks a checkpoint lists as completed
listedIn(cp) == {cp.completedTasks[j] : j \in 1..Len(cp.completedTasks)}

\* C2: when main of the queued collector finishes, citiesData holds exactly one
\* outcome entry for every (city, keyword) task, whatever its fetches returned
C2_OneOutcomePerTask ==
  pcMain = "done" =>
    /\ \A t \in MainTaskIds : Len(entryOf(allResults, t)) = 1
    /\ Cardinality({<<c, k>> \in CityNames \X KeywordSet : allResults[c][k] # NoEntry})
         = totalTasks

\* C2 witness: a finished run whose outcomes include results, an empty result
\* list and a failure
C2_Witness ==
  /\ pcMain = "done"
  /\ \E t \in MainTaskIds : entryOf(allResults, t) # NoEntry
                            /\ entryOf(allResults, t)[1].yandex = "hits"
  /\ \E t \in MainTaskIds : entryOf(allResults, t) # NoEntry
                            /\ entryOf(allResults, t)[1].yandex = "nohits"
  /\ \E t \in MainTaskIds : entryOf(allResults, t) # NoEntry
                            /\ entryOf(allResults, t)[1].yandex = "error"

\* C4: a run resumed from the checkpoint of a stopped run ends with the same
\* per-task outcomes as an uninterrupted run
C4_ResumeEquivalence ==
  pcMain = "done" =>
    \A t \in MainTaskIds : entryOf(allResults, t) = Some(expectedOutcome(t))

\* C4 witness: a resumed run has finished after skipping some but not all tasks
C4_Witness ==
  /\ pcMain = "done"
  /\ restarts >= 1
  /\ loadedTasks # {}
  /\ \E t \in MainTaskIds : taskKey(t) \notin loadedTasks

\* the tasks recorded in allResults that the progress file does not list
Missing ==
  {t \in MainTaskIds :
     /\ entryOf(allResults, t) # NoEntry
     /\ (disk = NoFile \/ taskKey(t) \notin listedIn(disk[1]))}

\* C7 as stated: while the run lasts, at most one finished task is missing
\* from the persisted checkpoint
C7_AtMostOneMissing ==
  pcMain = "waiting" => Cardinality(Missing) <= 1

\* C7 as amended: every outcome is recorded together with an attempt to write
\* the checkpoint, so the finished tasks missing from the persisted checkpoint
\* are at most as many as the writes that failed since the last good one
C7_MissingOnlyByFailedWrites ==
  pcMain = "waiting" => Cardinality(Missing) <= failedWrites

\* C7 witness: good writes have persisted several tasks finished in this run;
\* none is missing
C7_Witness ==
  /\ pcMain = "waiting"
  /\ failedWrites = 0
  /\ disk # NoFile
  /\ Len(disk[1].completedTasks) >= 2
  /\ Len(disk[1].completedTasks) > Cardinality(loadedTasks) + 1
  /\ Missing = {}

\* a checkpoint lists a task as completed exactly if its lastResults holds an
\* outcome for it
consistent(cts, lastResults) ==
  \A t \in MainTaskIds :
    (taskKey(t) \in {cts[j] : j \in 1..Len(cts)})
      <=> (lastResults # None /\ entryOf(lastResults[1], t) # NoEntry)

\* C8: in the persisted and in the in-memory checkpoint a task is listed in
\* completedTasks if and only if lastResults holds an outcome for it
C8_CheckpointConsistent ==
  /\ consistent(progress.completedTasks,
                IF progress.lastResults = None THEN None ELSE Some(allResults))
  /\ disk # NoFile => consistent(disk[1].completedTasks, disk[1].lastResults)

\* C8 witness: a resumed run works on a checkpoint that lists some tasks
C8_Witness ==
  /\ pcMain = "waiting"
  /\ restarts >= 1
  /\ disk # NoFile
  /\ Len(progress.completedTasks) > Cardinality(loadedTasks)
  /\ loadedTasks # {}
  /\ Len(disk[1].completedTasks) < totalTasks

\* The queued collector never fetches a task that the loaded checkpoint lists,
\* and has fetched every other task when it finishes
C6_QueuedSkipsExactlyCompleted ==
  \A t \in MainTaskIds :
    /\ taskKey(t) \in loadedTasks => fetchCalls[t] = 0
    /\ (pcMain = "done" /\ taskKey(t) \notin loadedTasks) => fetchCalls[t] > 0

\* the outcome main of the sequential collector holds for task i, or NoEntry
seqEntryOf(cd, i) ==
  IF cd[seqCityOf(i)] = None THEN NoEntry ELSE cd[seqCityOf(i)][1][seqKeywordOf(i)]
\* the first task of the present run of the sequential collector
firstTask == taskOf(startFromCity, startFromKeyword)
\* the sequential collector has left main
seqEnded == sPc \in {"done", "failed"}
\* the outcome an uninterrupted run records for task i
seqExpected(i) ==
  [yandex |-> getUniqueResultsFor(upstream[i].yandex).results,
   google |-> getUniqueResultsFor(upstream[i].google).results]

\* C3: when the sequential collector has ended, every task from the start
\* position of the run on has an outcome in allResults, also when
\* getUniqueResults threw for one of them: the failure is recorded and the
\* later tasks are still collected
C3_FatalErrorRecorded ==
  seqEnded => \A i \in SeqTaskIds : i >= firstTask => seqEntryOf(seqResults, i) # NoEntry

\* C5: a run of the sequential collector that ends normally, resumed or not,
\* holds in allResults.citiesData the outcomes of all N tasks that an
\* uninterrupted run records, and so does every per-city file it has saved
C5_SeqResumeEquivalence ==
  sPc = "done" =>
    \A i \in SeqTaskIds :
      /\ seqEntryOf(seqResults, i) = Some(seqExpected(i))
      /\ cityFiles[seqCityOf(i)] # NoFile =>
           seqEntryOf(cityFiles, i) = Some(seqExpected(i))

\* C6: the sequential collector never fetches a task that lies before the
\* loaded resume position, and when it has ended it has dispatched every task
\* from that position on
C6_SkipsExactlyCompleted ==
  /\ \A i \in fetched : i >= firstTask
  /\ seqEnded => \A i \in SeqTaskIds : i >= firstTask => i \in fetched

\* C9: at every point of getUniqueResults the entries of uniqueResults carry
\* the globalPosition values 1, 2, ..., N in order, and no two of them have
\* the same url
C9_DenseUniquePositions ==
  /\ \A i \in 1..Len(uniqueResults) :
       /\ "globalPosition" \in DOMAIN uniqueResults[i]
       /\ uniqueResults[i].globalPosition = i
  /\ \A i, j \in 1..Len(uniqueResults) :
       i # j => /\ "url" \in DOMAIN uniqueResults[i]
                /\ "url" \in DOMAIN uniqueResults[j]
                /\ uniqueResults[i].url # uniqueResults[j].url

\* C10: the number of pages getUniqueResults has requested never exceeds
\* maxPages, whatever the requests answer
C10_PagesBounded == pagesFetched <= maxPages

\* C10 witness: a call for Yandex has returned after requesting maxPages pages,
\* the last of which failed
C10_Witness ==
  /\ gpc = "returned"
  /\ pagesFetched = maxPages
  /\ lastResponse = "failed"

\* the entries of uniqueResults that are search results (not the marker of an
\* empty answer) all come from the first page of the engine
allFromFirstPage ==
  \A i \in 1..Len(uniqueResults) :
    "page" \in DOMAIN uniqueResults[i] =>
      uniqueResults[i].page = firstPage(engine) + PAGE_OFFSET

\* C11: getUniqueResults issues or repeats a request only while it has fewer
\* than targetUniqueResults unique urls and its page index is below maxPages;
\* when the first page alone gave the target, one page has been fetched
C11_NoFetchBeyondLimits ==
  /\ gpc \in {"request", "backoff"} =>
       Cardinality(uniqueUrls) < targetUniqueResults /\ page < maxPages
  /\ (Cardinality(uniqueUrls) >= targetUniqueResults /\ allFromFirstPage) =>
       pagesFetched = 1

\* C11 witness: the call has returned after a first page that reached the target
C11_Witness ==
  /\ gpc = "returned"
  /\ Cardinality(uniqueUrls) >= targetUniqueResults
  /\ allFromFirstPage
  /\ pagesFetched = 1

\* C12: after a request was answered with a page that brought no new url,
\* because all its records are duplicates or because it holds no records,
\* getUniqueResults has returned: no further page is requested
C12_StopsWithoutNewResults ==
  lastResponse \in {"duplicates", "norecords"} => gpc = "returned"

\* C13: a task for which the search API signalled "no results for the query"
\* is recorded with an empty result array (reported count 0) for that engine
C13_EmptySignalGivesNoResults ==
  \A i \in SeqTaskIds :
    seqEntryOf(seqResults, i) # NoEntry =>
      /\ upstream[i].yandex = "signal15" => Len(seqEntryOf(seqResults, i)[1].yandex) = 0
      /\ upstream[i].google = "signal15" => Len(seqEntryOf(seqResults, i)[1].google) = 0

\* collectDataForQuery has returned for task t in the present process
collected(t) == cpc[t] \in {"returned", "handled"}

\* C14: for a task whose Yandex request is answered at once and whose Google
\* request is answered with the signal "no results for the query", two
\* requests are issued in all: the signal is not followed by another request
C14_EmptySignalNotRetried ==
  \A t \in MainTaskIds :
    (/\ collected(t)
     /\ upstream[t].yandex \in {"hits", "nohits"}
     /\ upstream[t].google = "signal15") => fetchCalls[t] = 2

\* C15: for a task whose Yandex request fails with a fatal error and whose
\* Google request is answered at once, two requests are issued in all: the
\* fatal error is not followed by another request
C15_FatalErrorNotRetried ==
  \A t \in MainTaskIds :
    (/\ collected(t)
     /\ upstream[t].yandex = "fatal"
     /\ upstream[t].google \in {"hits", "nohits"}) => fetchCalls[t] = 2

\* C16: the HTTP requests issued for one page, the repetitions made inside
\* performSearch included, are at most maxRetries + 1
C16_RequestsOfPageBounded == requests <= collectionMaxRetries + 1

\* the answers of a search request that is not an error
Answers == {"results", "duplicates", "norecords"}

\* C17: the sleep before repetition number k (k = 0, 1, ...) of a page's
\* request lasts initialBackoff * 2^k, and when a page is answered after r
\* failed calls the retry loop of the page has slept
\* initialBackoff * (2^r - 1) in all
C17_ExponentialBackoff ==
  /\ gpc = "backoff" => backoff = initialBackoff * 2^(retries - 1)
  /\ gpc = "request" => waited = initialBackoff * (2^retries - 1)
  /\ (gpc = "returned" /\ lastResponse = "duplicates") =>
       waited = initialBackoff * (2^retries - 1)

\* C17 witness: a page was answered after as many failed calls as the loop
\* allows, and the loop has slept through all their backoffs
C17_Witness ==
  /\ gpc = "returned"
  /\ lastResponse = "duplicates"
  /\ retries = collectionMaxRetries
  /\ waited = initialBackoff * (2^collectionMaxRetries - 1)

\* C18: when the request of the first page has ended with an error that is
\* neither repeated nor the signal of an empty answer, the function has thrown
C18_FirstPageFailureThrows ==
  (pagesFetched = 1 /\ lastResponse = "failed") => gpc = "thrown"

\* C19: when the request of a page after the first ends with an error that is
\* neither repeated nor the signal of an empty answer, the results collected
\* so far are kept, the page index advances by one and the function goes on:
\* it does not throw, and it returns only when the loop condition ends the loop
C19_LaterPageFailureContinues ==
  [][(/\ gpc = "request"
      /\ gpc' # "request"
      /\ page # firstPage(engine)
      /\ lastResponse' = "failed")
     => /\ uniqueResults' = uniqueResults
        /\ uniqueUrls' = uniqueUrls
        /\ page' = page + 1
        /\ gpc' \in {"delay", "returned"}
        /\ gpc' = "returned" => ~whileGuard(Cardinality(uniqueUrls), page')]_vars

\* C19 witness: a call that collected results on an earlier page has gone past
\* a later page whose request failed and is about to request the next page
C19_Witness ==
  /\ lastResponse = "failed"
  /\ Len(uniqueResults) > 0
  /\ page > firstPage(engine) + 1
  /\ gpc = "request"

\* the place of x in the sequence seq
positionIn(seq, x) == CHOOSE n \in 1..Len(seq) : seq[n] = x
\* task a comes before task b in the two loops of main: its city comes first
\* in CITIES or, for the same city, its keyword comes first in keywords
enumeratedBefore(a, b) ==
  \/ positionIn(CITIES, cityOf(a)) < positionIn(CITIES, cityOf(b))
  \/ /\ cityOf(a) = cityOf(b)
     /\ positionIn(keywords, keywordOf(a)) < positionIn(keywords, keywordOf(b))

\* C20: the tasks of the queued collector start in the order of the two loops
\* of main, all keywords of a city before any keyword of the next city, and a
\* task that still waits in the queue comes after every task that has started
C20_StartsInEnumerationOrder ==
  /\ \A i, j \in 1..Len(startOrder) :
       i < j => enumeratedBefore(startOrder[i], startOrder[j])
  /\ \A i \in 1..Len(startOrder), j \in 1..Len(queue) :
       enumeratedBefore(startOrder[i], queue[j])
  /\ \A i, j \in 1..Len(queue) : i < j => enumeratedBefore(queue[i], queue[j])

\* C20 witness: every task of the run has started, the later ones after
\* waiting in the queue for a free slot
C20_Witness ==
  /\ Len(startOrder) = totalTasks
  /\ totalTasks > concurrency

\* every task handed to add() returns a promise, none throws when called
OnlyPromiseTasks == \A t \in TaskIds : tkind[t] = "async"

\* C21: when every task returns a promise that settles, every task that waits
\* in the queue starts in the end, and every pending promise of add() is
\* resolved or rejected in the end
C21_NoStarvation ==
  []OnlyPromiseTasks =>
    \A t \in TaskIds :
      /\ (tstate[t] = "queued") ~> (tstate[t] # "queued")
      /\ (addPromise[t] = "pending") ~> (addPromise[t] \in {"resolved", "rejected"})

\* C21 witness: more tasks than slots were added, all have started, and their
\* promises are settled, some resolved and some rejected
C21_Witness ==
  /\ OnlyPromiseTasks
  /\ concurrency < MaxTasks
  /\ Len(startOrder) = MaxTasks
  /\ \A t \in TaskIds : addPromise[t] \in {"resolved", "rejected"}
  /\ \E t \in TaskIds : addPromise[t] = "resolved"
  /\ \E t \in TaskIds : addPromise[t] = "rejected"

\* the entries of the list completedTasks of p for the key (cityName, keyword)
entriesFor(p, cityName, keyword) ==
  {j \in 1..Len(p.completedTasks) :
     /\ p.completedTasks[j].keyword = keyword
     /\ p.completedTasks[j].cityName = cityName}

\* C22: however often the completion of a key is recorded, the checkpoint
\* lists the key once and holds the outcome of the latest recording
C22_RecordingOverwrites ==
  [][\A c \in CityNames, k \in KeywordSet, r \in Outcomes :
       RecordCompleted(c, k, r) =>
         /\ Cardinality(entriesFor(progress', c, k)) = 1
         /\ allResults'[c][k] = Some(r)]_vars

\* every task of the run has an outcome in citiesData
allHaveOutcome == \A t \in MainTaskIds : entryOf(allResults, t) # NoEntry

\* C23: the progress file disappears only when every task of the run has an
\* outcome; when main has finished, a following start finds no progress; and
\* a run that is stopped before its end leaves the progress file as it is
C23_CheckpointCleared ==
  /\ [][(disk # NoFile /\ disk' = NoFile) => allHaveOutcome]_vars
  /\ [](pcMain = "done" => loadProgress(disk) = EmptyProgress)
  /\ [][(pcMain = "waiting" /\ pcMain' = "stopped") => disk' = disk]_vars

\* C23 as amended: the same, but when main has finished a following start
\* finds no progress unless the removal of the progress file has failed
C23_ClearedUnlessRemovalFails ==
  /\ [][(disk # NoFile /\ disk' = NoFile) => allHaveOutcome]_vars
  /\ [](pcMain = "done" => (loadProgress(disk) = EmptyProgress \/ failedWrites > 0))
  /\ [][(pcMain = "waiting" /\ pcMain' = "stopped") => disk' = disk]_vars

\* C23 witness: main has finished a run that was stopped and started again in
\* between, every task has its outcome and the progress file was removed
C23_Witness ==
  /\ pcMain = "done"
  /\ restarts > 0
  /\ allHaveOutcome
  /\ disk = NoFile
  /\ failedWrites = 0

\* C24: a write of the progress file that fails does not end the run and
\* leaves the results in memory as they are, the outcome of the task whose
\* callback made the write included; and when main finishes, every task has
\* its outcome
C24_WriteFailureTolerated ==
  /\ [][failedWrites' > failedWrites =>
          /\ pcMain' \in {"waiting", "done"}
          /\ \A t \in MainTaskIds :
               /\ entryOf(allResults, t) # NoEntry =>
                    entryOf(allResults', t) = entryOf(allResults, t)
               /\ cpc'[t] = "handled" => entryOf(allResults', t) # NoEntry]_vars
  /\ [](pcMain = "done" => allHaveOutcome)

\* C24 witness: main has finished with every outcome in memory although the
\* progress file on disk lacks a task, the last writes having failed
C24_Witness ==
  /\ pcMain = "done"
  /\ allHaveOutcome
  /\ disk # NoFile
  /\ \E t \in MainTaskIds : taskKey(t) \notin listedIn(disk[1])

\* the pages that have brought at least one new url
pagesContributing ==
  {uniqueResults[i].page :
     i \in {j \in 1..Len(uniqueResults) : "page" \in DOMAIN uniqueResults[j]}}

\* C25: a call that has returned with fewer urls than the target, and every
\* page of which has brought at least one new url, has requested exactly
\* maxPages pages, for Yandex (first page 0) and for Google (first page 1)
C25_ExactlyMaxPages ==
  (/\ gpc = "returned"
   /\ Cardinality(uniqueUrls) < targetUniqueResults
   /\ Cardinality(pagesContributing) = pagesFetched)
  => pagesFetched = maxPages

\* C26: neither the counter activeRequests nor the number of HTTP requests
\* that are outstanding ever exceeds maxThreads
C26_AtMostMaxThreads ==
  /\ activeRequests <= maxThreads
  /\ Cardinality({c \in Callers : apc[c] = "inflight"}) <= maxThreads

nextPageFetchDue ==
  gpc = "request" /\ requests = 0 /\ page > firstPage(engine)

\* C27: the fetch of a next page starts only out of the pause of
\* delayBetweenRequests that follows the end of the fetch of the page before
C27_DelayBetweenPages ==
  [][(nextPageFetchDue' /\ ~nextPageFetchDue) => (gpc = "delay" /\ page' = page)]_vars

C27_Witness == nextPageFetchDue /\ pagesFetched >= 1

\* C28: an HTTP request that fails by its timeout and so ends the call of the
\* search API is taken for a transient error by the retry loop of the page:
\* while the loop has retries left it backs off and sends the request again
C28_TimeoutRetriedAsTransient ==
  [][(RequestFails /\ attempts' # attempts /\ retries < collectionMaxRetries)
       => (gpc' = "backoff" /\ retries' = retries + 1)]_vars

\* C30: every call of the search API starts with the whole retry budget of
\* performSearch: when the retry loop of a page calls the API again after its
\* backoff, options.retryCount counts no failure of the calls before
C30_BudgetPerCall ==
  [][Backoff => optionsRetryCount' = 0]_vars

\* every task that was added has settled: its add() promise is resolved or
\* rejected and none of its callbacks is still to run
allAddedSettled ==
  \A t \in TaskIds :
    tstate[t] # "new" =>
      /\ addPromise[t] \in {"resolved", "rejected"}
      /\ tstate[t] \in {"settled", "threw"}

\* C31: a task that fails gives its slot back as a task that succeeds does:
\* once every added task has settled, running is 0 and the queue is empty
C31_SlotsReleased ==
  allAddedSettled => (running = 0 /\ queue = <<>>)

\* C32: between two operations of the queue a waiting task and a free slot
\* never coexist: while a task waits in the queue, running = concurrency
C32_WorkConserving ==
  Len(queue) > 0 => running = concurrency

C32_Witness ==
  /\ Len(queue) > 0
  /\ running = concurrency
  /\ \E t \in TaskIds : tstate[t] = "settled"

\* no call of performSearch and no enqueued request is in progress
apiAtRest ==
  /\ requestQueue = <<>>
  /\ \A c \in Callers : apc[c] \in {"idle", "returned", "thrown"}

C34_EnqueuedRequestRuns ==
  /\ [](\A c \in Callers :
          (via[c] = "queue" /\ apc[c] = "inflight") => held[c] + qslot[c] = 1)
  /\ \A c \in Callers :
       (via[c] = "queue") ~> (apc[c] \in {"returned", "thrown"})

\* s is an initial part of t
isPrefix(s, t) ==
  Len(s) <= Len(t) /\ \A i \in 1..Len(s) : t[i] = s[i]

\* C35: within a task uniqueUrls and uniqueResults only grow, uniqueResults
\* at its end, so that no entry is removed, moved or renumbered; and a step
\* that brings no url not seen before, such as the answer with a page whose
\* records all have a seen url or none, leaves uniqueResults as it is, the
\* marker of the empty-result signal apart
C35_OnlyAppends ==
  [][gpc # "idle" =>
       /\ isPrefix(uniqueResults, uniqueResults')
       /\ uniqueUrls \subseteq uniqueUrls'
       /\ uniqueUrls' = uniqueUrls =>
            (uniqueResults' = uniqueResults \/ lastResponse' = "emptysignal")]_vars

C35_Witness ==
  /\ gpc = "returned"
  /\ lastResponse = "duplicates"
  /\ Len(uniqueResults) >= 2
  /\ pagesFetched >= 2

\* the urls of the entries of a list of unique results
urlsOf(results) ==
  {results[i].url : i \in {j \in 1..Len(results) : "url" \in DOMAIN results[j]}}

\* C36: the urls that a call of getUniqueResults takes for seen are the urls
\* of its own unique results and no others: no url of an earlier call makes
\* it drop a record
C36_TrackerPerTask ==
  uniqueUrls = urlsOf(uniqueResults)

C36_Witness ==
  /\ calls >= 1
  /\ \E u \in seenEarlier : u \in urlsOf(uniqueResults)

\* the number of tasks that lie before the position stored in the progress
\* file f of the sequential collector; without a file a run starts at task 1
tasksBefore(f) ==
  IF f = NoFile THEN 0
  ELSE f[1].currentCityIndex * Len(keywords) + f[1].currentKeywordIndex

\* a step that writes the progress file
persists == resumeFile' # resumeFile /\ resumeFile' # NoFile

\* the stored position never moves backwards
neverBackwards ==
  (resumeFile # NoFile /\ resumeFile' # NoFile) =>
    tasksBefore(resumeFile') >= tasksBefore(resumeFile)

\* when the position is written, the run has called getUniqueResults for
\* every task from its first one up to the position and for none behind it
exactWhenPersisted ==
  persists =>
    /\ tasksBefore(resumeFile') = taskOf(cityIndex, keywordIndex)
    /\ \A i \in SeqTaskIds :
         /\ (firstTask <= i /\ i <= tasksBefore(resumeFile')) => i \in fetched'
         /\ i > tasksBefore(resumeFile') => i \notin fetched'

\* a run that finds a progress file starts at the position stored in it
startsAtStoredPosition ==
  (sPc = "stopped" /\ sPc' # "stopped") => firstTask' = tasksBefore(resumeFile) + 1

\* C37, as claimed: the stored position never moves backwards, is exact when
\* it is written, and a run that is stopped resumes exactly at the first task
\* that was not processed: whenever a task is about to be collected, the
\* stored position is that task
C37_ResumeAtFirstUnprocessed ==
  /\ [][neverBackwards /\ exactWhenPersisted /\ startsAtStoredPosition]_vars
  /\ [](sPc = "yandex" => tasksBefore(resumeFile) + 1 = taskOf(cityIndex, keywordIndex))

\* C37, amended: the stored position never moves backwards, is exact when it
\* is written, and a resumed run starts at the stored position, which is
\* never after the first task that was not processed; it is before that
\* task when writes of the progress file have failed
C37_ResumeNotBeyondUnprocessed ==
  /\ [][neverBackwards /\ exactWhenPersisted /\ startsAtStoredPosition]_vars
  /\ [](sPc = "yandex" => tasksBefore(resumeFile) + 1 <= taskOf(cityIndex, keywordIndex))

C37_Witness ==
  /\ restarts >= 1
  /\ firstTask > 1
  /\ resumeFile # NoFile
  /\ tasksBefore(resumeFile) >= firstTask
  /\ sPc = "yandex"
  /\ tasksBefore(resumeFile) + 1 = taskOf(cityIndex, keywordIndex)

====
